---- MODULE Spec2Model ----
(***************************************************************************)
(* Model of ConfigManager (src/config_manager.py): the in-memory host table *)
(* and AE table, the raw configuration text they are regenerated into, and  *)
(* the hosts file the mutations append to and rewrite.                      *)
(*                                                                          *)
(* Text is modelled by its characters.  A string is a sequence of one-      *)
(* character strings.  A line of the hosts file or of the configuration is  *)
(* a string (without its newline).  The regular expressions of the parser   *)
(* are matched on the tokens of a line, a token being a maximal run of      *)
(* characters other than white space and the punctuation = ( ) , and each   *)
(* punctuation character a token of its own: the expressions allow \s*      *)
(* between any two tokens and none inside one.                              *)
(***************************************************************************)
EXTENDS Integers, Sequences, FiniteSets, TLC

\* raw, hosts and scus are the fields of the ConfigManager; hostsFile is the
\* file at hosts_path; last is the call that produced the state.  The field
\* hosts_ip is no variable: add_scu and edit_scu rebuild it from the file
\* (_load_hosts_file) before they read it and nothing else reads it after
\* the construction, so it is the value LoadHostsFile(hostsFile) of the call.
VARIABLES raw, hosts, scus, hostsFile, last

\* cfgFile is the file at cfg_path, tmpFiles the temporary files in its
\* directory (the one of a write_back under way is the last), pc the place
\* the process is at in write_back ("idle" outside it, "down" once the
\* process has died), and calls the number of calls made so far in the
\* specifications that bound it.
VARIABLES cfgFile, tmpFiles, pc, calls

\* trip is where a round trip of a configuration text through _parse and
\* _sync_to_raw is at, with the result of its first _parse.
VARIABLES trip

\* Where the calls of two threads overlap, hosts_ip is the field of that
\* name, which they share, threads is where each thread is in its call with
\* the locals of the call, and observed records the updates of the hosts
\* file that went wrong and whether two calls have overlapped.  (Where one
\* call runs at a time hosts_ip stays at its value after the construction:
\* see above.)
VARIABLES hosts_ip, threads, observed

storeVars == <<raw, hosts, scus, hostsFile, last>>
diskVars == <<cfgFile, tmpFiles, pc, calls>>
raceVars == <<hosts_ip, threads, observed>>
otherVars == <<trip, raceVars>>
vars == <<storeVars, diskVars, otherVars>>

(***************************************************************************)
(* Bounds and input sets                                                    *)
(***************************************************************************)
\* how many of the hosts files of HostsFileList the store is constructed on
NumHostsFiles == 2

\* how many calls are made in the specifications with write_back
MaxCalls == 3

\* how many calls the two threads make together
MaxRaceCalls == 4

\* how many rows the host table of a text given to the round trip has at most
MaxRows == 2

\* what the callers pass: two AE titles, a hostname and a second one that it
\* is a prefix of, one IP address and one port
AETitles == {<<"A">>, <<"B">>}
Hostnames == {<<"p">>, <<"p", "1">>}
IPs == {<<"1">>}
Ports == {104}

Min(a, b) == IF a < b THEN a ELSE b

(***************************************************************************)
(* Strings                                                                  *)
(***************************************************************************)
UpperChars == <<"A","B","C","D","E","F","G","H","I","J","K","L","M",
                "N","O","P","Q","R","S","T","U","V","W","X","Y","Z">>
LowerChars == <<"a","b","c","d","e","f","g","h","i","j","k","l","m",
                "n","o","p","q","r","s","t","u","v","w","x","y","z">>
DigitChars == <<"0","1","2","3","4","5","6","7","8","9">>

Range(s) == {s[i] : i \in DOMAIN s}

\* the lower-case letter of each upper-case one
LowerOfUpper ==
    [c \in {UpperChars[i] : i \in DOMAIN UpperChars} |->
        LowerChars[CHOOSE i \in DOMAIN UpperChars : UpperChars[i] = c]]

UpperSet == Range(UpperChars)

LowerChar(c) == IF c \in UpperSet THEN LowerOfUpper[c] ELSE c

\* str.lower()
Lower(s) == [i \in DOMAIN s |-> LowerChar(s[i])]

\* `sub in s` of Python: sub occurs in s as a contiguous run
Contains(s, sub) ==
    \E i \in 0..(Len(s) - Len(sub)) :
        \A j \in 1..Len(sub) : s[i + j] = sub[j]

RECURSIVE Join(_, _)
\* sep.join(parts)
Join(parts, sep) ==
    IF parts = <<>> THEN <<>>
    ELSE IF Len(parts) = 1 THEN parts[1]
    ELSE parts[1] \o sep \o Join(Tail(parts), sep)

RECURSIVE SplitFrom(_, _)
\* the maximal runs of non-blank characters of s from position i on
SplitFrom(s, i) ==
    IF i > Len(s) THEN <<>>
    ELSE IF s[i] = " " THEN SplitFrom(s, i + 1)
    ELSE LET stops == {j \in i..Len(s) : s[j] = " "}
             stop  == IF stops = {} THEN Len(s) + 1
                      ELSE CHOOSE j \in stops : \A k \in stops : j <= k
         IN <<SubSeq(s, i, stop - 1)>> \o SplitFrom(s, stop)

\* str.split()
SplitWS(s) == SplitFrom(s, 1)

RECURSIVE FormatInt(_)
\* the decimal digits of n, as an f-string writes an int
FormatInt(n) ==
    IF n < 10 THEN <<DigitChars[n + 1]>>
    ELSE Append(FormatInt(n \div 10), DigitChars[(n % 10) + 1])

DigitValue(c) == (CHOOSE i \in DOMAIN DigitChars : DigitChars[i] = c) - 1

RECURSIVE ParseInt(_)
\* int(s) of a string of decimal digits
ParseInt(s) ==
    IF Len(s) = 1 THEN DigitValue(s[1])
    ELSE 10 * ParseInt(SubSeq(s, 1, Len(s) - 1)) + DigitValue(s[Len(s)])

(***************************************************************************)
(* dict: a Python dict keeps its keys in insertion order, so it is the      *)
(* sequence of its (key, value) items                                       *)
(***************************************************************************)
Keys(d) == {d[i].k : i \in DOMAIN d}

Has(d, key) == key \in Keys(d)

Get(d, key) == d[CHOOSE i \in DOMAIN d : d[i].k = key].v

\* d[key] = val: an existing key keeps its place, a new one goes last
Put(d, key, val) ==
    IF Has(d, key)
    THEN [i \in DOMAIN d |-> IF d[i].k = key THEN [k |-> key, v |-> val] ELSE d[i]]
    ELSE Append(d, [k |-> key, v |-> val])

\* del d[key] / d.pop(key)
Del(d, key) ==
    LET Other(item) == item.k # key IN SelectSeq(d, Other)

\* list(d.values())
Values(d) == [i \in DOMAIN d |-> d[i].v]

HostEntry(symbolic, aet, hostname, port) ==
    [symbolic |-> symbolic, aet |-> aet, hostname |-> hostname, port |-> port]

SCUEntry(ae_title, hostname, ip, port) ==
    [ae_title |-> ae_title, hostname |-> hostname, ip |-> ip, port |-> port]

(***************************************************************************)
(* The hosts file: whether it exists, its lines (each without its newline)  *)
(* and whether the last line ends in a newline.  An empty file has no lines *)
(* and eol = TRUE.                                                          *)
(***************************************************************************)
Tag == <<"#", " ", "D", "I", "C", "O", "M", " ", "S", "C", "U">>

NoMapping == [h \in {} |-> <<>>]

\* one line of the loop of _load_hosts_file
LoadLine(line, m) ==
    LET parts == SplitWS(line) IN
    IF parts = <<>> \/ Head(Head(parts)) = "#" THEN m
    ELSE IF Len(parts) >= 2
         THEN [h \in DOMAIN m \cup Range(Tail(parts)) |->
                  IF h \in Range(Tail(parts)) THEN parts[1] ELSE m[h]]
         ELSE m

RECURSIVE LoadLines(_, _)
LoadLines(lines, m) ==
    IF lines = <<>> THEN m ELSE LoadLines(Tail(lines), LoadLine(Head(lines), m))

\* _load_hosts_file: the hostname -> ip mapping of the file, empty when the
\* file does not exist
LoadHostsFile(file) ==
    IF file.exists THEN LoadLines(file.lines, NoMapping) ELSE NoMapping

\* the text f"{ip} {hostname} # DICOM SCU" (the newline is the line's end)
TaggedLine(ip, hostname) == ip \o <<" ">> \o hostname \o <<" ">> \o Tag

\* open(hosts_path, 'a').write(text + "\n"): the text goes right after the
\* last byte of the file, which is the end of the last line when that line
\* has no newline
AppendToHostsFile(file, text) ==
    [exists |-> TRUE,
     lines  |-> IF file.lines = <<>> \/ file.eol
                THEN Append(file.lines, text)
                ELSE [file.lines EXCEPT ![Len(file.lines)] = @ \o text],
     eol    |-> TRUE]

\* a faulty variant: the hostname is looked for at the start of the line, where the
\* IP address is
DropsLine_AtStart(line, hostname) ==
    /\ Len(line) >= Len(hostname)
    /\ SubSeq(line, 1, Len(hostname)) = hostname
    /\ Contains(line, Tag)

\* the test of _remove_host_from_hostsfile for dropping a line
DropsLine(line, hostname) == Contains(line, hostname) /\ Contains(line, Tag)

\* _remove_host_from_hostsfile on an existing file: copy the lines that are
\* kept to a temporary file and move it over the hosts file
RemoveHostFromHostsfile(file, hostname) ==
    LET Keep(line) == ~DropsLine(line, hostname)
        kept == SelectSeq(file.lines, Keep)
    IN [exists |-> TRUE,
        lines  |-> kept,
        eol    |-> IF file.lines # <<>> /\ Keep(file.lines[Len(file.lines)])
                   THEN file.eol ELSE TRUE]

(***************************************************************************)
(* The configuration text: a sequence of lines, each a string.  The model's *)
(* configuration files keep every BEGIN and END marker on a line of its own.*)
(***************************************************************************)
HostTableWord == <<"H", "o", "s", "t", "T", "a", "b", "l", "e">>
AETableWord == <<"A", "E", "T", "a", "b", "l", "e">>
BeginWord == <<"B", "E", "G", "I", "N">>
EndWord == <<"E", "N", "D">>

\* the marker text the regenerated blocks are written with
MarkerLine(table, word) == table \o <<" ">> \o word

\* the marker words as re.I compares them
HostTableKey == Lower(HostTableWord)
AETableKey == Lower(AETableWord)
BeginKey == Lower(BeginWord)
EndKey == Lower(EndWord)

\* lead blanks, the table's name, gap blanks, the word, blanks to the end
MarkerShape(line, table, word) ==
    LET n    == Len(line)
        room == n - Len(table) - Len(word)
        IsAt(w, from) == \A k \in 1..Len(w) : LowerChar(line[from + k]) = w[k]
        Blank(from, to) == \A k \in from..to : line[k] = " "
    IN \E lead \in 0..(room - 1) :
          /\ Blank(1, lead)
          /\ IsAt(table, lead)
          /\ \E gap \in 1..(room - lead) :
                /\ Blank(lead + Len(table) + 1, lead + Len(table) + gap)
                /\ IsAt(word, lead + Len(table) + gap)
                /\ Blank(lead + Len(table) + gap + Len(word) + 1, n)

\* a line that holds table\s+word under re.I and nothing else but blanks,
\* table and word given in lower case (the length and the last character
\* are tested first to spare the search)
IsMarker(line, table, word) ==
    /\ Len(line) > Len(table) + Len(word)
    /\ LowerChar(line[Len(line)]) \in {" ", word[Len(word)]}
    /\ MarkerShape(line, table, word)

IdentChars ==
    Range(UpperChars) \cup Range(LowerChars) \cup Range(DigitChars) \cup {"_", "-"}
HostChars == IdentChars \cup {"."}
Punctuation == {"=", "(", ")", ","}

RECURSIVE TokensFrom(_, _)
\* the tokens of s from position i on: the punctuation characters, and the
\* maximal runs of other non-blank characters
TokensFrom(s, i) ==
    IF i > Len(s) THEN <<>>
    ELSE IF s[i] = " " THEN TokensFrom(s, i + 1)
    ELSE IF s[i] \in Punctuation THEN << <<s[i]>> >> \o TokensFrom(s, i + 1)
    ELSE LET stops == {j \in i..Len(s) : s[j] = " " \/ s[j] \in Punctuation}
             stop  == IF stops = {} THEN Len(s) + 1
                      ELSE CHOOSE j \in stops : \A k \in stops : j <= k
         IN <<SubSeq(s, i, stop - 1)>> \o TokensFrom(s, stop)

Tokens(s) == TokensFrom(s, 1)

\* whether a token is what one element of a pattern matches
Fits(class, tok) ==
    CASE class \in Punctuation -> tok = <<class>>
      [] class = "ident"  -> Range(tok) \subseteq IdentChars
      [] class = "host"   -> Range(tok) \subseteq HostChars
      [] class = "digits" -> Range(tok) \subseteq Range(DigitChars)
      \* a trailing [0-9]+ with nothing required after it matches the first
      \* digits of a token
      [] class = "digits_then_any" -> tok[1] \in Range(DigitChars)

RECURSIVE Matches(_, _)
\* re.match: some prefix of the tokens matches the pattern, an optional
\* element being taken or skipped
Matches(pattern, toks) ==
    IF pattern = <<>> THEN TRUE
    ELSE \/ /\ toks # <<>>
            /\ Fits(Head(pattern).class, Head(toks))
            /\ Matches(Tail(pattern), Tail(toks))
         \/ /\ Head(pattern).opt
            /\ Matches(Tail(pattern), toks)

Req(class) == [class |-> class, opt |-> FALSE]
Opt(class) == [class |-> class, opt |-> TRUE]

\* the first regular expression of the host-table loop (line 55)
GroupedPattern ==
    << Opt("("), Req("ident"), Opt(","), Opt(")"), Req("="), Opt("("),
       Req("ident"), Req(","), Req("host"), Req(","), Req("digits_then_any"),
       Opt(")") >>

\* the second one (line 60): sym = (AE, host, port)
TuplePattern ==
    << Req("ident"), Req("="), Req("("), Req("ident"), Req(","), Req("host"),
       Req(","), Req("digits"), Req(")") >>

\* line.strip() is empty or starts with '#'
IsBlankOrComment(line) ==
    LET parts == SplitWS(line) IN
    parts = <<>> \/ Head(Head(parts)) = "#"

\* the text after the first '=' of a line that has one
AfterEquals(line) ==
    LET i == CHOOSE i \in DOMAIN line :
                 line[i] = "=" /\ \A j \in 1..(i - 1) : line[j] # "="
    IN SubSeq(line, i + 1, Len(line))

\* lines 48-61: the host-table loop records a HostEntry for the line unless
\* it is blank, a comment, without '=', a group list, or matched by the first
\* regular expression, and then only when the second one matches
RecordsHostEntry(line) ==
    /\ ~IsBlankOrComment(line)
    /\ "=" \in Range(line)
    /\ ~("," \in Range(AfterEquals(line)) /\ "(" \notin Range(AfterEquals(line)))
    /\ ~Matches(GroupedPattern, Tokens(line))
    /\ Matches(TuplePattern, Tokens(line))

\* lines 62-66: the HostEntry of a line the loop records
HostEntryOfLine(line) ==
    LET t == Tokens(line) IN HostEntry(t[1], t[4], t[6], ParseInt(t[8]))

\* the smallest number of a non-empty set of numbers
Least(S) == CHOOSE i \in S : \A j \in S : i <= j

\* the numbers of the lines that are the marker `word` of a table, both
\* given in lower case
MarkerLines(text, key, word) == {i \in DOMAIN text : IsMarker(text[i], key, word)}

\* the first BEGIN marker after line `from` that an END marker follows, 0 when
\* there is none, and the first END marker after line i: where the lazy
\* pattern BEGIN.*?END matches next
NextBegin(begins, ends, from) ==
    LET ok == {b \in begins : b > from /\ \E e \in ends : e > b}
    IN IF ok = {} THEN 0 ELSE Least(ok)

NextEnd(ends, i) == Least({e \in ends : e > i})

\* the lines between the first BEGIN marker of a table and the first END
\* marker after it, <<>> when re.search finds no block
BlockBody(text, key) ==
    LET begins == MarkerLines(text, key, BeginKey)
        ends   == MarkerLines(text, key, EndKey)
        first  == NextBegin(begins, ends, 0)
    IN IF first = 0 THEN <<>>
       ELSE SubSeq(text, first + 1, NextEnd(ends, first) - 1)

RECURSIVE ParseHostLines(_, _)
ParseHostLines(lines, d) ==
    IF lines = <<>> THEN d
    ELSE ParseHostLines(
            Tail(lines),
            IF RecordsHostEntry(Head(lines))
            THEN Put(d, HostEntryOfLine(Head(lines)).symbolic,
                     HostEntryOfLine(Head(lines)))
            ELSE d)

\* lines 43-66 of _parse
ParseHostTable(text) == ParseHostLines(BlockBody(text, HostTableKey), <<>>)

\* lines 73-80: an AE-table line on which the loop reaches the lookup of the
\* host's IP
ReachesLookup(line, d) ==
    /\ ~IsBlankOrComment(line)
    /\ Len(SplitWS(line)) >= 5
    /\ \E sym \in Keys(d) : Contains(line, sym)

\* a faulty variant: every line of five fields is recorded, with its last
\* field for the hostname, whatever the host table holds
ParseAETable_PeerAsHost(text, d) ==
    LET body == BlockBody(text, AETableKey)
        Rec(line) == SCUEntry(Head(SplitWS(line)), SplitWS(line)[Len(SplitWS(line))],
                              <<>>, 0)
        Keep(line) == ~IsBlankOrComment(line) /\ Len(SplitWS(line)) >= 5
        upTo[i \in 0..Len(body)] ==
            IF i = 0 THEN <<>>
            ELSE IF Keep(body[i])
                 THEN Put(upTo[i - 1], Rec(body[i]).ae_title, Rec(body[i]))
                 ELSE upTo[i - 1]
    IN [ok |-> TRUE, scus |-> upTo[Len(body)]]

\* lines 68-89 of _parse.  _parse runs only from the constructor, where
\* hosts_ip is not set before line 91, so the lookup of line 84 raises
\* AttributeError and the construction fails: ok says that no line reaches
\* it, and then no SCUEntry is recorded.
ParseAETable(text, d) ==
    LET body == BlockBody(text, AETableKey) IN
    [ok   |-> \A i \in DOMAIN body : ~ReachesLookup(body[i], d),
     scus |-> <<>>]

\* _parse
Parse(text) ==
    LET d == ParseHostTable(text)
        a == ParseAETable(text, d)
    IN [ok |-> a.ok, hosts |-> d, scus |-> a.scus]

(***************************************************************************)
(* _sync_to_raw                                                             *)
(***************************************************************************)
\* f"{sym} = ({he.aet}, {he.hostname}, {he.port})"
HostLine(sym, he) ==
    sym \o <<" ", "=", " ", "(">> \o he.aet \o <<",", " ">> \o he.hostname
        \o <<",", " ">> \o FormatInt(he.port) \o <<")">>

StoragePath == <<"/", "v", "a", "r", "/", "l", "i", "b", "/", "d", "c", "m",
                 "t", "k", "/", "d", "b", "/">>
AccessAndQuota == <<"R", "W", " ", "(", "5", "0", "0", ",", " ", "1", "g", "b", ")">>

\* f"{aet} /var/lib/dcmtk/db/{aet} RW (500, 1gb) {sym}"
AELine(aet, scu) ==
    aet \o <<" ">> \o StoragePath \o aet \o <<" ">> \o AccessAndQuota
        \o <<" ">> \o Lower(scu.ae_title)

HostLines(d) == [i \in DOMAIN d |-> HostLine(d[i].k, d[i].v)]
AELines(d) == [i \in DOMAIN d |-> AELine(d[i].k, d[i].v)]

RECURSIVE SubFrom(_, _, _, _, _, _)
\* the text after line `from` with every block replaced: each run of lines
\* from a BEGIN marker to the first END marker after it, from left to right
SubFrom(text, begins, ends, from, table, lines) ==
    LET first == NextBegin(begins, ends, from) IN
    IF first = 0 THEN SubSeq(text, from + 1, Len(text))
    ELSE SubSeq(text, from + 1, first - 1)
             \o <<MarkerLine(table, BeginWord)>>
             \o (IF lines = <<>> THEN << <<>> >> ELSE lines)
             \o <<MarkerLine(table, EndWord)>>
             \o SubFrom(text, begins, ends, NextEnd(ends, first), table, lines)

\* a faulty variant: the pattern is anchored at the start of the text, so the
\* text before the block is replaced with it
SubBlocks_FromStart(text, table, key, lines) ==
    LET ends == MarkerLines(text, key, EndKey) IN
    IF ends = {} THEN text
    ELSE <<MarkerLine(table, BeginWord)>> \o lines
             \o <<MarkerLine(table, EndWord)>>
             \o SubSeq(text, Least(ends) + 1, Len(text))

\* re.sub(table\s+BEGIN.*?table\s+END, 'table BEGIN\n' + '\n'.join(lines)
\* + '\ntable END', text, flags=re.S|re.I); joining no lines leaves one empty
\* line between the markers.  key is the table's name in lower case.
SubBlocks(text, table, key, lines) ==
    \* (b \in {e} has e evaluated once)
    CHOOSE new \in {SubFrom(text, begins, ends, 0, table, lines) :
                       begins \in {MarkerLines(text, key, BeginKey)},
                       ends \in {MarkerLines(text, key, EndKey)}} : TRUE

\* the raw text with both blocks regenerated from the two dicts
SyncToRaw(text, hostd, scud) ==
    CHOOSE new \in {SubBlocks(t, AETableWord, AETableKey, aelines) :
                       t \in {SubBlocks(text, HostTableWord, HostTableKey,
                                        HostLines(hostd))},
                       aelines \in {AELines(scud)}} : TRUE

(***************************************************************************)
(* The files the store is constructed on                                    *)
(***************************************************************************)
Text(c) == <<c>>

\* the configuration file: text around the two blocks, a host table with a
\* comment, a group list, a row with two symbols and a row of the parsed
\* shape, and an AE table between markers in lower case
ConfigFile ==
    << Text("x"),
       MarkerLine(HostTableWord, BeginWord),
       <<"#", " ", "h">>,
       <<"g", " ", "=", " ", "a", ",", " ", "b">>,
       <<"g", ",", " ">> \o HostLine(<<"a">>, HostEntry(<<"a">>, <<"A">>, <<"q">>, 200)),
       HostLine(<<"b">>, HostEntry(<<"b">>, <<"B">>, <<"p">>, 104)),
       MarkerLine(HostTableWord, EndWord),
       Text("y"),
       Lower(MarkerLine(AETableWord, BeginWord)),
       AELine(<<"B">>, SCUEntry(<<"B">>, <<"p">>, <<"1">>, 104)),
       Lower(MarkerLine(AETableWord, EndWord)),
       Text("z") >>

ConfigFiles == {ConfigFile}

NoHostsFile == [exists |-> FALSE, lines |-> <<>>, eol |-> TRUE]

\* lines of other owners that map the hostnames p and q, the last without
\* its newline, after a tagged line that an earlier run of the store
\* appended for p
HostsForeignAndTagged ==
    [exists |-> TRUE,
     lines  |-> << TaggedLine(<<"1">>, <<"p">>), <<"9", " ", "p">>,
                   <<"9", " ", "q">> >>,
     eol    |-> FALSE]

\* a line of another owner that maps the hostname p1, and an empty line
HostsForeignTerminated ==
    [exists |-> TRUE, lines |-> << <<"9", " ", "p", "1">>, <<>> >>, eol |-> TRUE]

\* an existing file with nothing in it
HostsEmpty == [exists |-> TRUE, lines |-> <<>>, eol |-> TRUE]

HostsFileList ==
    <<NoHostsFile, HostsForeignAndTagged, HostsForeignTerminated, HostsEmpty>>

HostsFiles ==
    {HostsFileList[i] : i \in 1..Min(NumHostsFiles, Len(HostsFileList))}

(***************************************************************************)
(* The store                                                                *)
(***************************************************************************)
NoScu == SCUEntry(<<>>, <<>>, <<>>, 0)

\* the call that produced the current state: its name, the AE title it was
\* given (scu.ae_title of add_scu, old_ae of edit_scu, ae_title of
\* delete_scu), the SCUEntry it stored, the SCUEntry delete_scu popped, and
\* the exception it raised
Call(op, key, scu, popped, err) ==
    [op |-> op, key |-> key, scu |-> scu, popped |-> popped, err |-> err]

Entries ==
    {SCUEntry(t, h, ip, port) : t \in AETitles, h \in Hostnames, ip \in IPs, port \in Ports}

\* read_all
ReadAll == [hosts |-> Values(hosts), scus |-> Values(scus)]

\* the threads of the server that handle requests on the one store
Threads == {1, 2}

\* a thread outside a call
Idle ==
    [pc |-> "idle", scu |-> NoScu, title |-> <<>>, host |-> <<>>,
     read |-> NoHostsFile, copy |-> NoHostsFile]

NothingObserved == [anomalies |-> {}, overlapped |-> FALSE]

\* no round trip is under way
NoTrip == [phase |-> "none", first |-> [hosts |-> <<>>, scus |-> <<>>]]

\* __init__: _load and _parse of the configuration file, then _load_hosts_file
Init ==
    \E cfg \in ConfigFiles, file \in HostsFiles :
        /\ Parse(cfg).ok
        /\ raw = cfg
        /\ hosts = Parse(cfg).hosts
        /\ scus = Parse(cfg).scus
        /\ hostsFile = file
        /\ last = Call("load", <<>>, NoScu, NoScu, "")
        /\ cfgFile = cfg
        /\ tmpFiles = <<>>
        /\ pc = "idle"
        /\ calls = 0
        /\ trip = NoTrip
        /\ hosts_ip = LoadHostsFile(file)
        /\ threads = [t \in Threads |-> Idle]
        /\ observed = NothingObserved

\* lines 121-126: the hosts file after the hostname was appended if absent
\* from the mapping just read
EnsureHost(file, scu) ==
    IF scu.hostname \notin DOMAIN LoadHostsFile(file)
    THEN AppendToHostsFile(file, TaggedLine(scu.ip, scu.hostname))
    ELSE file

\* lines 119, 127-129 of add_scu
AddHostEntry(d, scu) ==
    LET symbol == Lower(scu.ae_title) IN
    IF ~Has(d, symbol)
    THEN Put(d, symbol, HostEntry(symbol, scu.ae_title, scu.hostname, scu.port))
    ELSE d

\* a faulty variant: the entry is appended without looking for its title
AddScuEntry_Append(d, scu) == Append(d, [k |-> scu.ae_title, v |-> scu])

\* line 131 of add_scu
AddScuEntry(d, scu) == Put(d, scu.ae_title, scu)

AddScu(scu) ==
    /\ hostsFile' = EnsureHost(hostsFile, scu)
    /\ hosts' = AddHostEntry(hosts, scu)
    /\ scus' = AddScuEntry(scus, scu)
    /\ raw' = SyncToRaw(raw, hosts', scus')
    /\ last' = Call("add", scu.ae_title, scu, NoScu, "")

\* a faulty variant: the title is not looked up
KnownOld_Unchecked(d, old_ae) == TRUE

\* line 137 of edit_scu
KnownOld(d, old_ae) == Has(d, old_ae)

\* line 154 of delete_scu
KnownTitle(d, ae_title) == Has(d, ae_title)

\* lines 140-141 of edit_scu
EditScuEntry(d, old_ae, new_scu) == Put(Del(d, old_ae), new_scu.ae_title, new_scu)

\* a faulty variant: the host table is rebuilt from the edited entry alone
EditHostEntry_Alone(d, new_scu) ==
    LET sym == Lower(new_scu.ae_title) IN
    << [k |-> sym,
        v |-> HostEntry(sym, new_scu.ae_title, new_scu.hostname, new_scu.port)] >>

\* lines 149-150 of edit_scu
EditHostEntry(d, new_scu) ==
    LET sym == Lower(new_scu.ae_title) IN
    Put(d, sym, HostEntry(sym, new_scu.ae_title, new_scu.hostname, new_scu.port))

EditScu(old_ae, new_scu) ==
    /\ KnownOld(scus, old_ae)
    /\ scus' = EditScuEntry(scus, old_ae, new_scu)
    /\ hostsFile' = EnsureHost(hostsFile, new_scu)
    /\ hosts' = EditHostEntry(hosts, new_scu)
    /\ raw' = SyncToRaw(raw, hosts', scus')
    /\ last' = Call("edit", old_ae, new_scu, NoScu, "")

EditScuNotFound(old_ae, new_scu) ==
    /\ ~KnownOld(scus, old_ae)
    /\ last' = Call("edit", old_ae, NoScu, NoScu, "KeyError")
    /\ UNCHANGED <<raw, hosts, scus, hostsFile>>

\* a faulty variant: the other entries are not looked at
StillUsed_Unchecked(d, host) == FALSE

\* line 159 of delete_scu, on the dict the entry was popped from
StillUsed(d, host) == \E i \in DOMAIN d : d[i].v.hostname = host

\* lines 162-164 of delete_scu
DeleteHostEntries(d, host) ==
    LET Other(item) == item.v.hostname # host IN SelectSeq(d, Other)

\* delete_scu of a known title.  Opening a hosts file that does not exist
\* raises FileNotFoundError at line 172, after the dicts were changed and
\* before _sync_to_raw.
DeleteScu(ae_title) ==
    /\ KnownTitle(scus, ae_title)
    /\ LET scu  == Get(scus, ae_title)
           rest == Del(scus, ae_title)
           host == scu.hostname
       IN /\ scus' = rest
          /\ IF StillUsed(rest, host)
             THEN /\ UNCHANGED <<hosts, hostsFile>>
                  /\ raw' = SyncToRaw(raw, hosts', scus')
                  /\ last' = Call("delete", ae_title, NoScu, scu, "")
             ELSE /\ hosts' = DeleteHostEntries(hosts, host)
                  /\ IF hostsFile.exists
                     THEN /\ hostsFile' = RemoveHostFromHostsfile(hostsFile, host)
                          /\ raw' = SyncToRaw(raw, hosts', scus')
                          /\ last' = Call("delete", ae_title, NoScu, scu, "")
                     ELSE /\ UNCHANGED <<hostsFile, raw>>
                          /\ last' = Call("delete", ae_title, NoScu, scu,
                                          "FileNotFoundError")

DeleteScuNotFound(ae_title) ==
    /\ ~KnownTitle(scus, ae_title)
    /\ last' = Call("delete", ae_title, NoScu, NoScu, "KeyError")
    /\ UNCHANGED <<raw, hosts, scus, hostsFile>>

\* the calls on the store alone: nothing is written back
Next ==
    \/ \E scu \in Entries : AddScu(scu) /\ UNCHANGED <<diskVars, otherVars>>
    \/ \E old_ae \in AETitles, new_scu \in Entries :
           EditScu(old_ae, new_scu) /\ UNCHANGED <<diskVars, otherVars>>
    \/ \E old_ae \in AETitles, new_scu \in Entries :
           EditScuNotFound(old_ae, new_scu) /\ UNCHANGED <<diskVars, otherVars>>
    \/ \E ae_title \in AETitles : DeleteScu(ae_title) /\ UNCHANGED <<diskVars, otherVars>>
    \/ \E ae_title \in AETitles : DeleteScuNotFound(ae_title) /\ UNCHANGED <<diskVars, otherVars>>

Spec == Init /\ [][Next]_vars

(***************************************************************************)
(* The round trip of a configuration text                                   *)
(***************************************************************************)
\* rows a host table can hold: a comment, a group list, the parsed shape as
\* _sync_to_raw writes it and as a hand writes it, and a row left open
HostRows ==
    { <<"#", " ", "h">>,
      <<"g", " ", "=", " ", "a", ",", " ", "b">>,
      HostLine(<<"b">>, HostEntry(<<"b">>, <<"B">>, <<"p">>, 104)),
      <<"a", "=", "(", " ", "A", ",", "q", " ", ",", "0", "7", " ", ")">>,
      <<"c", " ", "=", " ", "(", "C", ",", " ", "p", ",", " ", "1", "0", "4">> }

\* rows an AE table can hold: the row _sync_to_raw writes and a row of five
\* fields of another hand
AERows ==
    { AELine(<<"B">>, SCUEntry(<<"B">>, <<"p">>, <<"1">>, 104)),
      <<"B", " ", "x", " ", "y", " ", "z", " ", "w">> }

SeqsUpTo(S, n) == UNION {[1..k -> S] : k \in 0..n}

\* the texts the round trip is made on
ConfigTexts ==
    { << Text("x"), MarkerLine(HostTableWord, BeginWord) >> \o hostRows
          \o << MarkerLine(HostTableWord, EndWord), Text("y"),
                MarkerLine(AETableWord, BeginWord) >> \o aeRows
          \o << MarkerLine(AETableWord, EndWord), Text("z") >> :
        hostRows \in SeqsUpTo(HostRows, MaxRows), aeRows \in SeqsUpTo(AERows, 1) }

\* a configuration file and the fields as lines 27-29 of __init__ set them
TripInit ==
    \E text \in ConfigTexts :
        /\ cfgFile = text
        /\ raw = <<>>
        /\ hosts = <<>>
        /\ scus = <<>>
        /\ hostsFile = NoHostsFile
        /\ last = Call("init", <<>>, NoScu, NoScu, "")
        /\ tmpFiles = <<>>
        /\ pc = "idle"
        /\ calls = 0
        /\ trip = [NoTrip EXCEPT !.phase = "file"]
        /\ hosts_ip = NoMapping
        /\ threads = [t \in Threads |-> Idle]
        /\ observed = NothingObserved

\* _load and _parse (the hosts file is not read before _parse ends)
TripLoad ==
    /\ trip.phase = "file"
    /\ Parse(cfgFile).ok
    /\ raw' = cfgFile
    /\ hosts' = Parse(cfgFile).hosts
    /\ scus' = Parse(cfgFile).scus
    /\ last' = Call("load", <<>>, NoScu, NoScu, "")
    /\ trip' = [phase |-> "parsed", first |-> [hosts |-> hosts', scus |-> scus']]
    /\ UNCHANGED <<hostsFile, diskVars, raceVars>>

\* _sync_to_raw with no call in between
TripRegenerate ==
    /\ trip.phase = "parsed"
    /\ raw' = SyncToRaw(raw, hosts, scus)
    /\ trip' = [trip EXCEPT !.phase = "regenerated"]
    /\ UNCHANGED <<hosts, scus, hostsFile, last, diskVars, raceVars>>

\* _parse of the regenerated text
TripReparse ==
    /\ trip.phase = "regenerated"
    /\ Parse(raw).ok
    /\ hosts' = Parse(raw).hosts
    /\ scus' = Parse(raw).scus
    /\ trip' = [trip EXCEPT !.phase = "reparsed"]
    /\ UNCHANGED <<raw, hostsFile, last, diskVars, raceVars>>

RoundTripNext ==
    \/ TripLoad
    \/ TripRegenerate
    \/ TripReparse

RoundTripSpec == TripInit /\ [][RoundTripNext]_vars

(***************************************************************************)
(* Errors on the hosts file                                                 *)
(***************************************************************************)
\* line 122, on the mapping _load_hosts_file has just read
Unmapped(file, scu) == scu.hostname \notin DOMAIN LoadHostsFile(file)

\* add_scu when open(hosts_path, 'a') of line 125 raises OSError: nothing
\* was assigned before it
AddScuAppendFails(scu) ==
    /\ Unmapped(hostsFile, scu)
    /\ last' = Call("add", scu.ae_title, NoScu, NoScu, "OSError")
    /\ UNCHANGED <<raw, hosts, scus, hostsFile>>

\* edit_scu when open(hosts_path, 'a') of line 145 raises OSError: lines
\* 140-141 have run, lines 149-151 have not
EditScuAppendFails(old_ae, new_scu) ==
    /\ KnownOld(scus, old_ae)
    /\ scus' = EditScuEntry(scus, old_ae, new_scu)
    /\ Unmapped(hostsFile, new_scu)
    /\ last' = Call("edit", old_ae, NoScu, NoScu, "OSError")
    /\ UNCHANGED <<raw, hosts, hostsFile>>

\* the hosts file is not the store's alone: another owner removes it
RemoveHostsFile ==
    /\ hostsFile.exists
    /\ hostsFile' = NoHostsFile
    /\ UNCHANGED <<raw, hosts, scus, last>>

\* the calls on the store with the errors the hosts file can raise
FaultNext ==
    \/ Next
    \/ \E scu \in Entries : AddScuAppendFails(scu) /\ UNCHANGED <<diskVars, otherVars>>
    \/ \E old_ae \in AETitles, new_scu \in Entries :
           EditScuAppendFails(old_ae, new_scu) /\ UNCHANGED <<diskVars, otherVars>>
    \/ RemoveHostsFile /\ UNCHANGED <<diskVars, otherVars>>

FaultSpec == Init /\ [][FaultNext]_vars

(***************************************************************************)
(* Two threads on the one store                                             *)
(***************************************************************************)
\* what two threads are given: the same entry or two entries with hostnames
\* of which neither holds the other's line
RaceEntries ==
    { SCUEntry(<<"A">>, <<"p", "1">>, <<"1">>, 104),
      SCUEntry(<<"B">>, <<"p">>, <<"1">>, 104) }

\* a faulty variant: the hostname is appended whatever the mapping holds
Absent_Unchecked(m, hostname) == TRUE

\* line 122
Absent(m, hostname) == hostname \notin DOMAIN m

\* another thread is in a call
Overlaps(t) == \E u \in Threads \ {t} : threads[u].pc # "idle"

\* line 121 of add_scu: _load_hosts_file assigns the shared field
AddLoad(t, scu) ==
    /\ threads[t].pc = "idle"
    /\ calls < MaxRaceCalls
    /\ calls' = calls + 1
    /\ hosts_ip' = LoadHostsFile(hostsFile)
    /\ threads' = [threads EXCEPT ![t] = [Idle EXCEPT !.pc = "add_check", !.scu = scu]]
    /\ observed' = [observed EXCEPT !.overlapped = @ \/ Overlaps(t)]
    /\ UNCHANGED <<storeVars, cfgFile, tmpFiles, pc, trip>>

\* line 122: the check on the shared field
AddCheck(t) ==
    /\ threads[t].pc = "add_check"
    /\ threads' = [threads EXCEPT ![t].pc =
           IF Absent(hosts_ip, threads[t].scu.hostname)
           THEN "add_append" ELSE "add_store"]
    /\ UNCHANGED <<storeVars, diskVars, trip, hosts_ip, observed>>

\* lines 123-126: the append and the entry in the shared field
AddAppend(t) ==
    /\ threads[t].pc = "add_append"
    /\ LET scu  == threads[t].scu
           line == TaggedLine(scu.ip, scu.hostname)
       IN /\ hostsFile' = AppendToHostsFile(hostsFile, line)
          /\ hosts_ip' = (scu.hostname :> scu.ip) @@ hosts_ip
          /\ observed' =
                 IF line \in Range(hostsFile.lines)
                 THEN [observed EXCEPT !.anomalies = @ \cup {"double append"}]
                 ELSE observed
    /\ threads' = [threads EXCEPT ![t].pc = "add_store"]
    /\ UNCHANGED <<raw, hosts, scus, last, diskVars, trip>>

\* lines 127-133
AddStore(t) ==
    /\ threads[t].pc = "add_store"
    /\ hosts' = AddHostEntry(hosts, threads[t].scu)
    /\ scus' = AddScuEntry(scus, threads[t].scu)
    /\ raw' = SyncToRaw(raw, hosts', scus')
    /\ last' = Call("add", threads[t].scu.ae_title, threads[t].scu, NoScu, "")
    /\ threads' = [threads EXCEPT ![t] = Idle]
    /\ UNCHANGED <<hostsFile, diskVars, trip, hosts_ip, observed>>

\* lines 154-164 of delete_scu
DeleteBegin(t, ae_title) ==
    /\ threads[t].pc = "idle"
    /\ calls < MaxRaceCalls
    /\ calls' = calls + 1
    /\ KnownTitle(scus, ae_title)
    /\ LET scu  == Get(scus, ae_title)
           rest == Del(scus, ae_title)
       IN /\ scus' = rest
          /\ hosts' = IF StillUsed(rest, scu.hostname) THEN hosts
                      ELSE DeleteHostEntries(hosts, scu.hostname)
          /\ threads' = [threads EXCEPT ![t] =
                 [Idle EXCEPT !.pc = IF StillUsed(rest, scu.hostname)
                                     THEN "del_sync" ELSE "del_copy",
                              !.title = ae_title, !.scu = scu,
                              !.host = scu.hostname]]
    /\ observed' = [observed EXCEPT !.overlapped = @ \/ Overlaps(t)]
    /\ UNCHANGED <<raw, hostsFile, last, cfgFile, tmpFiles, pc, trip, hosts_ip>>

\* lines 171-176 of _remove_host_from_hostsfile: the lines are read and the
\* ones that stay are written to a temporary file.  (The file is there: an
\* ApplicationEntity is stored only after add_scu has appended to it.)
DeleteCopy(t) ==
    /\ threads[t].pc = "del_copy"
    /\ hostsFile.exists
    /\ threads' = [threads EXCEPT
           ![t].pc = "del_move",
           ![t].read = hostsFile,
           ![t].copy = RemoveHostFromHostsfile(hostsFile, threads[t].host)]
    /\ UNCHANGED <<storeVars, diskVars, trip, hosts_ip, observed>>

\* line 177: the temporary file takes the place of the hosts file.  An
\* update is lost when the file replaced holds a line that the rewrite keeps
\* and the copy has not.
DeleteMove(t) ==
    /\ threads[t].pc = "del_move"
    /\ hostsFile' = threads[t].copy
    /\ observed' =
           IF RemoveHostFromHostsfile(hostsFile, threads[t].host) # threads[t].copy
           THEN [observed EXCEPT !.anomalies = @ \cup {"lost update"}]
           ELSE observed
    /\ threads' = [threads EXCEPT ![t].pc = "del_sync"]
    /\ UNCHANGED <<raw, hosts, scus, last, diskVars, trip, hosts_ip>>

\* line 167
DeleteSync(t) ==
    /\ threads[t].pc = "del_sync"
    /\ raw' = SyncToRaw(raw, hosts, scus)
    /\ last' = Call("delete", threads[t].title, NoScu, threads[t].scu, "")
    /\ threads' = [threads EXCEPT ![t] = Idle]
    /\ UNCHANGED <<hosts, scus, hostsFile, diskVars, trip, hosts_ip, observed>>

RaceNext ==
    \/ \E t \in Threads, scu \in RaceEntries : AddLoad(t, scu)
    \/ \E t \in Threads : AddCheck(t)
    \/ \E t \in Threads : AddAppend(t)
    \/ \E t \in Threads : AddStore(t)
    \/ \E t \in Threads, ae_title \in AETitles : DeleteBegin(t, ae_title)
    \/ \E t \in Threads : DeleteCopy(t)
    \/ \E t \in Threads : DeleteMove(t)
    \/ \E t \in Threads : DeleteSync(t)

RaceSpec == Init /\ [][RaceNext]_vars

(***************************************************************************)
(* write_back                                                               *)
(***************************************************************************)
Last(s) == s[Len(s)]
Front(s) == SubSeq(s, 1, Len(s) - 1)

\* what f.write(self.raw) has put in the file when it is cut short
PartWritten(text) == SubSeq(text, 1, Len(text) \div 2)

\* the temporary files with the content of the one under way replaced
WithLast(temps, text) == [temps EXCEPT ![Len(temps)] = text]

\* a faulty variant: the temporary file is copied over the configuration file
AfterMove_Copied(temps) == temps

\* shutil.move (os.rename within the directory): the temporary file takes
\* the place of the configuration file and its own name is gone
AfterMove(temps) == Front(temps)

\* a call on the store between two write_backs, counted
Mutate ==
    \/ \E scu \in Entries : AddScu(scu)
    \/ \E old_ae \in AETitles, new_scu \in Entries : EditScu(old_ae, new_scu)
    \/ \E ae_title \in AETitles : DeleteScu(ae_title)

Mutation ==
    /\ pc = "idle"
    /\ calls < MaxCalls
    /\ Mutate
    /\ calls' = calls + 1
    /\ UNCHANGED <<cfgFile, tmpFiles, pc>>
    /\ UNCHANGED otherVars

\* line 197: mkstemp creates an empty file in the directory of cfg_path
CreateTemp ==
    /\ pc = "idle"
    /\ calls < MaxCalls
    /\ tmpFiles' = Append(tmpFiles, <<>>)
    /\ pc' = "created"
    /\ calls' = calls + 1
    /\ UNCHANGED <<storeVars, cfgFile>>
    /\ UNCHANGED otherVars

\* lines 198-199: the raw text is written to the temporary file
WriteTemp ==
    /\ pc = "created"
    /\ tmpFiles' = WithLast(tmpFiles, raw)
    /\ pc' = "written"
    /\ UNCHANGED <<storeVars, cfgFile, calls>>
    /\ UNCHANGED otherVars

\* the write raises OSError (no space left) with a part of the text written;
\* write_back has no handler, the temporary file stays
WriteTempFails ==
    /\ pc = "created"
    /\ tmpFiles' = WithLast(tmpFiles, PartWritten(raw))
    /\ pc' = "idle"
    /\ last' = Call("write_back", <<>>, NoScu, NoScu, "OSError")
    /\ UNCHANGED <<raw, hosts, scus, hostsFile, cfgFile, calls>>
    /\ UNCHANGED otherVars

\* line 200
MoveTemp ==
    /\ pc = "written"
    /\ cfgFile' = Last(tmpFiles)
    /\ tmpFiles' = AfterMove(tmpFiles)
    /\ pc' = "idle"
    /\ last' = Call("write_back", <<>>, NoScu, NoScu, "")
    /\ UNCHANGED <<raw, hosts, scus, hostsFile, calls>>
    /\ UNCHANGED otherVars

\* the rename raises OSError: both files stay as they are
MoveTempFails ==
    /\ pc = "written"
    /\ pc' = "idle"
    /\ last' = Call("write_back", <<>>, NoScu, NoScu, "OSError")
    /\ UNCHANGED <<raw, hosts, scus, hostsFile, cfgFile, tmpFiles, calls>>
    /\ UNCHANGED otherVars

\* the process dies in write_back: before the write, in it, or before the
\* rename
Crash ==
    /\ pc \in {"created", "written"}
    /\ \/ UNCHANGED tmpFiles
       \/ pc = "created" /\ tmpFiles' = WithLast(tmpFiles, PartWritten(raw))
    /\ pc' = "down"
    /\ UNCHANGED <<storeVars, cfgFile, calls>>
    /\ UNCHANGED otherVars

\* app.py line 12 in a new process: a store is constructed on the files
Restart ==
    /\ pc = "down"
    /\ Parse(cfgFile).ok
    /\ raw' = cfgFile
    /\ hosts' = Parse(cfgFile).hosts
    /\ scus' = Parse(cfgFile).scus
    /\ last' = Call("load", <<>>, NoScu, NoScu, "")
    /\ pc' = "idle"
    /\ UNCHANGED <<hostsFile, cfgFile, tmpFiles, calls>>
    /\ UNCHANGED otherVars

WriteBackNext ==
    \/ Mutation
    \/ CreateTemp
    \/ WriteTemp
    \/ WriteTempFails
    \/ MoveTemp
    \/ MoveTempFails
    \/ Crash
    \/ Restart

WriteBackSpec == Init /\ [][WriteBackNext]_vars

(***************************************************************************)
(* Properties                                                               *)
(***************************************************************************)
\* the last call returned without raising
Succeeded == last.err = ""

\* some ApplicationEntity of the dict has the hostname
Referenced(d, hostname) == \E i \in DOMAIN d : d[i].v.hostname = hostname

\* the hostnames a hosts-file line maps: its words after the first
MappedBy(line) ==
    IF SplitWS(line) = <<>> THEN {} ELSE Range(Tail(SplitWS(line)))

\* a line with the system tag that maps the hostname
IsTaggedFor(line, hostname) == Contains(line, Tag) /\ hostname \in MappedBy(line)

\* the lines of the hosts file without the system tag, in their order
UntaggedLines(file) ==
    LET NoTag(line) == ~Contains(line, Tag) IN SelectSeq(file.lines, NoTag)

\* the lines of the host-table block that have the shape
\* symbol = (AE, hostname, port) and nothing after it
ShapedRows(text) ==
    LET body == BlockBody(text, HostTableKey) IN
    {body[i] : i \in {j \in DOMAIN body :
        /\ ~IsBlankOrComment(body[j])
        /\ Len(Tokens(body[j])) = Len(TuplePattern)
        /\ Matches(TuplePattern, Tokens(body[j]))}}

\* C1: after any sequence of successful calls every ApplicationEntity with
\* title t has a HostEntry under t.lower() that carries its hostname and port.
C1_HostEntryFollowsScu ==
    \A i \in DOMAIN scus :
        LET e == scus[i].v IN
        /\ Has(hosts, Lower(e.ae_title))
        /\ Get(hosts, Lower(e.ae_title)).hostname = e.hostname
        /\ Get(hosts, Lower(e.ae_title)).port = e.port

\* C2: after add_scu(e) the HostEntry under e.ae_title.lower() has the AE
\* title, hostname and port of e, also when one was stored there before.
C2_AddOverwritesHostEntry ==
    (last.op = "add" /\ Succeeded) =>
        /\ Has(hosts, Lower(last.scu.ae_title))
        /\ Get(hosts, Lower(last.scu.ae_title)) =
               HostEntry(Lower(last.scu.ae_title), last.scu.ae_title,
                         last.scu.hostname, last.scu.port)

\* C3: after add_scu(e) read_all() holds exactly one ApplicationEntity with
\* the title of e, equal to e, and exactly one HostEntry with the symbolic
\* name e.ae_title.lower().
C3_AddStoresExactlyOne ==
    (last.op = "add" /\ Succeeded) =>
        LET e == last.scu
            titled == {i \in DOMAIN ReadAll.scus : ReadAll.scus[i].ae_title = e.ae_title}
            named  == {i \in DOMAIN ReadAll.hosts :
                          ReadAll.hosts[i].symbolic = Lower(e.ae_title)}
        IN /\ Cardinality(titled) = 1
           /\ \A i \in titled : ReadAll.scus[i] = e
           /\ Cardinality(named) = 1

\* add_scu has run for a title that was stored with another hostname, next
\* to a second ApplicationEntity
C3_Witness ==
    /\ last.op = "add" /\ Succeeded
    /\ Len(ReadAll.scus) = 2
    /\ Get(hosts, Lower(last.scu.ae_title)).hostname # last.scu.hostname

\* C4: when delete_scu has removed the last ApplicationEntity with hostname
\* h, no HostEntry has hostname h and no tagged line of the hosts file maps h.
C4_DeleteLastClearsHost ==
    (last.op = "delete" /\ Succeeded /\ ~Referenced(scus, last.popped.hostname)) =>
        /\ \A i \in DOMAIN hosts : hosts[i].v.hostname # last.popped.hostname
        /\ \A i \in DOMAIN hostsFile.lines :
               ~IsTaggedFor(hostsFile.lines[i], last.popped.hostname)

\* delete_scu has removed the last ApplicationEntity of a hostname while
\* another ApplicationEntity and its tagged line stay
C4_Witness ==
    /\ last.op = "delete" /\ Succeeded
    /\ ~Referenced(scus, last.popped.hostname)
    /\ scus # <<>>
    /\ \E i \in DOMAIN hostsFile.lines : Contains(hostsFile.lines[i], Tag)

\* C5: a HostEntry leaves the dict only in a delete_scu after which no
\* ApplicationEntity has its hostname; add_scu and edit_scu remove none; and
\* a delete_scu of one of several ApplicationEntities with the same hostname
\* leaves the HostEntry rows and the hosts file as they were.
C5_Step ==
    /\ \A i \in DOMAIN hosts :
          hosts[i].k \notin Keys(hosts') =>
              /\ last'.op = "delete"
              /\ hosts[i].v.hostname = last'.popped.hostname
              /\ ~Referenced(scus', hosts[i].v.hostname)
    /\ (last'.op = "delete" /\ last'.err = ""
            /\ Referenced(scus', last'.popped.hostname)) =>
          (hosts' = hosts /\ hostsFile' = hostsFile)

C5_HostEntryRemovedOnlyWhenUnreferenced == [][C5_Step]_vars

\* delete_scu has removed one of two ApplicationEntities with the same
\* hostname, whose HostEntry rows are there
C5_Witness ==
    /\ last.op = "delete" /\ Succeeded
    /\ Referenced(scus, last.popped.hostname)
    /\ \E i \in DOMAIN hosts : hosts[i].v.hostname = last.popped.hostname
    /\ \E i \in DOMAIN hostsFile.lines :
           IsTaggedFor(hostsFile.lines[i], last.popped.hostname)

\* C6: edit_scu and delete_scu called with a title that is no key of scus
\* raise KeyError and leave scus, hosts, raw and the hosts file as they were.
C6_Step ==
    (last'.op \in {"edit", "delete"} /\ ~Has(scus, last'.key)) =>
        /\ last'.err = "KeyError"
        /\ UNCHANGED <<scus, hosts, raw, hostsFile>>

C6_NotFoundChangesNothing == [][C6_Step]_vars

\* a call has raised KeyError in a state with an ApplicationEntity, a
\* HostEntry and a hosts file
C6_Witness ==
    /\ last.op \in {"edit", "delete"} /\ last.err = "KeyError"
    /\ scus # <<>> /\ hosts # <<>> /\ hostsFile.lines # <<>>

\* C7: every call leaves the untagged lines of the hosts file as they were,
\* in their order.
C7_Step == UntaggedLines(hostsFile') = UntaggedLines(hostsFile)

C7_UntaggedLinesPreserved == [][C7_Step]_vars

\* C8: the rewrite of the hosts file by delete_scu for hostname h keeps the
\* tagged line that was appended for any other hostname.
C8_Step ==
    (last'.op = "delete" /\ last'.err = "") =>
        \A h2 \in Hostnames \ {last'.popped.hostname}, ip \in IPs :
            TaggedLine(ip, h2) \in Range(hostsFile.lines) =>
                TaggedLine(ip, h2) \in Range(hostsFile'.lines)

C8_OtherTaggedLinesKept == [][C8_Step]_vars

\* C9: after the construction read_all() holds one HostEntry for every line
\* of the host-table block of the shape symbol = (AE, hostname, port), with
\* the symbol, AE title, hostname and port of the line.
C9_ParseRecordsShapedRows ==
    last.op = "load" =>
        Range(ReadAll.hosts) = {HostEntryOfLine(row) : row \in ShapedRows(raw)}

\* C10: after the construction and an add_scu(e), the host-table block of raw
\* holds every row of the loaded block of that shape whose symbol is not
\* e.ae_title.lower(), and the row of e.
C10_Step ==
    (last.op = "load" /\ last'.op = "add") =>
        LET block == Range(BlockBody(raw', HostTableKey))
            e     == last'.scu
        IN /\ \A row \in ShapedRows(raw) :
                  HostEntryOfLine(row).symbolic # Lower(e.ae_title) =>
                      \E line \in block : Tokens(line) = Tokens(row)
           /\ HostLine(Lower(e.ae_title),
                       HostEntry(Lower(e.ae_title), e.ae_title, e.hostname, e.port))
                  \in block

C10_LoadedRowsSurviveAdd == [][C10_Step]_vars

\* where the markers of the two tables are in a text
Layout(text) ==
    [hb |-> MarkerLines(text, HostTableKey, BeginKey),
     he |-> MarkerLines(text, HostTableKey, EndKey),
     ab |-> MarkerLines(text, AETableKey, BeginKey),
     ae |-> MarkerLines(text, AETableKey, EndKey)]

\* one host-table block and one AE-table block, one after the other
OneBlockEachAt(L) ==
    /\ \A f \in DOMAIN L : Cardinality(L[f]) = 1
    /\ Least(L.hb) < Least(L.he)
    /\ Least(L.ab) < Least(L.ae)
    /\ Least(L.he) < Least(L.ab) \/ Least(L.ae) < Least(L.hb)

OneBlockEach(text) == \E L \in {Layout(text)} : OneBlockEachAt(L)

\* the text before the first block, between the blocks and after the last
SurroundingsAt(text, L) ==
    LET hostFirst == Least(L.he) < Least(L.ab)
        b1 == IF hostFirst THEN L.hb ELSE L.ab
        e1 == IF hostFirst THEN L.he ELSE L.ae
        b2 == IF hostFirst THEN L.ab ELSE L.hb
        e2 == IF hostFirst THEN L.ae ELSE L.he
    IN << SubSeq(text, 1, Least(b1) - 1),
          SubSeq(text, Least(e1) + 1, Least(b2) - 1),
          SubSeq(text, Least(e2) + 1, Len(text)) >>

Surroundings(text) == SurroundingsAt(text, Layout(text))

\* C11: a call on a raw text with one host-table block and one AE-table block
\* leaves one block of each kind, and the text before the first block,
\* between the blocks and after the last block as it was.
C11_Step ==
    \E L \in {Layout(raw)}, M \in {Layout(raw')} :
        OneBlockEachAt(L) =>
            /\ OneBlockEachAt(M)
            /\ SurroundingsAt(raw', M) = SurroundingsAt(raw, L)

C12_Step ==
    /\ cfgFile' = cfgFile \/ cfgFile' = raw
    /\ (pc = "written" /\ pc' = "idle" /\ last'.err = "") =>
          /\ cfgFile' = raw
          /\ tmpFiles' = Front(tmpFiles)

C12_WriteBackAtomic == [][C12_Step]_vars

\* a write_back has returned with the changed text in the configuration
\* file, after an earlier one was cut short in the write and left its file
C12_Witness ==
    /\ last.op = "write_back" /\ Succeeded
    /\ cfgFile = raw
    /\ cfgFile # ConfigFile
    /\ tmpFiles = <<PartWritten(raw)>>

\* C13: a call that raises an error of the hosts file leaves the
\* ApplicationEntity map, the HostEntry map and the raw text as they were
\* before it, and the configuration file as it was last written.
C13_Step ==
    (last'.op \in {"add", "edit", "delete"}
        /\ last'.err \in {"OSError", "FileNotFoundError"}) =>
        UNCHANGED <<scus, hosts, raw, cfgFile>>

C13_FailedCallChangesNothing == [][C13_Step]_vars

C15_Step ==
    (last'.op \in {"add", "edit"} /\ last'.err = "") =>
        LET mapped == last'.scu.hostname \in DOMAIN LoadHostsFile(hostsFile)
            line   == TaggedLine(last'.scu.ip, last'.scu.hostname)
        IN hostsFile'.lines =
               IF mapped THEN hostsFile.lines ELSE Append(hostsFile.lines, line)

C15_AppendOnly == [][C15_Step]_vars

\* C16: an edit_scu that gives an ApplicationEntity a title with another
\* lower-case form takes the old title out of scus and puts the new one in,
\* and leaves the HostEntry under the old symbol in hosts, as it was, and in
\* the regenerated host-table block.
C16_Step ==
    (last'.op = "edit" /\ last'.err = ""
        /\ Lower(last'.key) # Lower(last'.scu.ae_title)) =>
        /\ ~Has(scus', last'.key)
        /\ Has(scus', last'.scu.ae_title)
        /\ Has(hosts, Lower(last'.key)) =>
              /\ Has(hosts', Lower(last'.key))
              /\ Get(hosts', Lower(last'.key)) = Get(hosts, Lower(last'.key))
              /\ HostLine(Lower(last'.key), Get(hosts, Lower(last'.key)))
                     \in Range(BlockBody(raw', HostTableKey))

C16_RenameLeavesStaleHostEntry == [][C16_Step]_vars

\* an ApplicationEntity was renamed and the HostEntry of its old title, which
\* no ApplicationEntity has any more, is in hosts and in the host-table block
C16_Witness ==
    /\ last.op = "edit" /\ Succeeded
    /\ Lower(last.key) # Lower(last.scu.ae_title)
    /\ ~Has(scus, last.key)
    /\ Has(hosts, Lower(last.key))
    /\ HostLine(Lower(last.key), Get(hosts, Lower(last.key)))
           \in Range(BlockBody(raw, HostTableKey))

\* C17: the hosts file loses an appended line or gets a line twice only
\* where two calls have overlapped; with two threads in add_scu and
\* delete_scu both happen.
C17_AnomaliesNeedOverlap == observed.anomalies # {} => observed.overlapped

\* the calls have returned: an add_scu appended a line that the hosts file
\* held already, a delete_scu replaced the hosts file by a copy made before
\* an add_scu appended a line for another hostname to it, and the
\* ApplicationEntity of that add_scu is stored while no line of the hosts
\* file maps its hostname
C17_Witness ==
    /\ observed.anomalies = {"lost update", "double append"}
    /\ \A t \in Threads : threads[t].pc = "idle"
    /\ last.op = "add"
    /\ Has(scus, last.key)
    /\ last.scu.hostname \notin DOMAIN LoadHostsFile(hostsFile)

\* C18: after a write_back that returned, a store constructed on the
\* configuration file holds the HostEntry rows and the AE titles that the
\* writing store holds in memory.
C18_FreshStoreAgrees ==
    (last.op = "write_back" /\ Succeeded) =>
        \E fresh \in {Parse(cfgFile)} :
            /\ fresh.ok
            /\ Range(Values(fresh.hosts)) = Range(Values(hosts))
            /\ Keys(fresh.scus) = Keys(scus)

\* C19: after an add_scu or edit_scu that returned, the mapping read from
\* the hosts file gives the ip of the stored entity for its hostname, also
\* where the file mapped the hostname to another ip before the call.
C19_HostsFileMapsStoredIp ==
    (last.op \in {"add", "edit"} /\ Succeeded) =>
        \E m \in {LoadHostsFile(hostsFile)} :
            /\ last.scu.hostname \in DOMAIN m
            /\ m[last.scu.hostname] = last.scu.ip

====
